---- MODULE Spec2Model ----
(***************************************************************************)
(* The social-graph store of the twitter clone (src/src/models.py) and the *)
(* service operations over it (src/src/services.py).                       *)
(*                                                                         *)
(* The store is the five tables of models.py: user, tweet, media and the   *)
(* association tables followers and likes.  User rows are created outside  *)
(* the services and are a fixed set here.  Row ids come from the store's   *)
(* sequences: each new row takes the next id, and an id is never issued    *)
(* twice.                                                                  *)
(*                                                                         *)
(* Spec     : the operations run one at a time, each to completion.        *)
(* SpecConc : two request sessions run the operations concurrently; what   *)
(*            an operation reads and what it commits are separate steps.   *)
(* SpecTx, SpecFault, SpecRoute, SpecMedia, SpecTrip : the operations with *)
(*            a create_tweet in two steps, with failing statements, behind *)
(*            the route's validation, with several files, and with the     *)
(*            store before a follow or like call remembered.               *)
(* SpecWait : wait_for_db (src/main.py), called once at start-up.          *)
(***************************************************************************)
EXTENDS Integers, Sequences, FiniteSets, Bags, TLC

\* ------------------------------------------------------------------ bounds
NumUsers == 2       \* user rows in the store
MaxCalls == 4       \* service calls made in a run
MaxRetries == 4     \* the greatest retries given to wait_for_db, the default aside

\* Column value of media.tweet_id when the row is attached to no tweet.
NULL == 0

\* The greatest length of a tweet's content (routes.py, len(tweet_data) > 280;
\* models.py, db.String(280)).  A content is modelled by its length.
MaxTweetLen == 280

\* wait_for_db's defaults (main.py, retries: int = 10, delay: int = 3).
DefaultRetries == 10
DefaultDelay == 3

Users == 1..NumUsers
\* Ids a caller may name: the last one names no user row.
UserIds == 1..(NumUsers + 1)
Procs == {"p1", "p2"}

VARIABLES
    tweets,       \* tweet table: id -> [user_id, content, created_at]
    nextTweetId,  \* next value of the tweet id sequence
    now,          \* last reading of the clock (datetime.now)
    followers,    \* followers table: set of <<follower_id, followed_id>>
    likes,        \* likes table: set of <<user_id, tweet_id>>
    medias,       \* media table: id -> [user_id, tweet_id, filename, path]
    nextMediaId,  \* next value of the media id sequence
    calls,        \* service calls made so far
    deleted,      \* history: ids of the tweets delete_tweet has deleted
    detached,     \* history: <<tweet_id, media_id>> detached by a tweet's deletion
    result,       \* what the last completed call returned (Spec)
    sessions,     \* the request sessions in flight (SpecConc)
    start,        \* history: the store before a follow or like call (SpecTrip)
    wait          \* the wait_for_db call made at start-up (SpecWait)

db == <<tweets, nextTweetId, now, followers, likes, medias, nextMediaId>>
vars == <<tweets, nextTweetId, now, followers, likes, medias, nextMediaId,
          calls, deleted, detached, result, sessions, start, wait>>

\* Ids a caller may name: those issued so far and the next one, which names
\* no row yet.
TweetIds == 1..nextTweetId
MediaIds == 1..nextMediaId

\* ------------------------------------------------------------- the results
\* services.py returns (success, [id,] error message); the kinds of outcome:
\*   "ok"               (True, ..., None)
\*   "NotFound"         (False, "Твит не найден" / "Пользователь не найден")
\*   "Forbidden"        (False, "Удалять можно только свои твиты")
\*   "SelfReference"    (False, "Нельзя подписаться на себя")
\*   "PersistenceError" (False, str(e)) for a caught SQLAlchemyError
\*   "ValidationError"  the route's 400 answer, given before the service is
\*                      called
\*   "Unhandled"        no return: a SQLAlchemyError raised outside the try
\*                      block leaves the service as an exception
\* "commit" tells the two ways to a result apart: FALSE for a return before
\* the try block, TRUE for one after db.session.commit() was called.
\* "media_ids" and "tweet_data" keep the media ids and the content a
\* create_tweet call named (calls that run to completion only); "followers"
\* and "following" are the lists of a returned profile.  "concurrent" tells
\* that another session's call was in flight when this one returned from its
\* try block.  "moved" keeps the media rows a create_tweet call took from an
\* earlier tweet.
Result(op, user, target, status) ==
    [op |-> op, user |-> user, target |-> target, status |-> status,
     commit |-> FALSE, id |-> NULL, tweets |-> <<>>, media_ids |-> {},
     tweet_data |-> NULL, followers |-> {}, following |-> {},
     concurrent |-> FALSE, moved |-> {}]

Committed(op, user, target, status) ==
    [Result(op, user, target, status) EXCEPT !.commit = TRUE]

ResultId(op, user, status, id) ==
    [Committed(op, user, NULL, status) EXCEPT !.id = id]

NoResult == Result("none", NULL, NULL, "ok")

\* A request session: "idle" between calls, "commit" between what a call
\* read and its db.session.commit().  A create_tweet in flight also holds
\* what its flush has produced and is not committed yet: the new tweet's id
\* and created_at and the media rows it has selected (of the ids the call
\* named only these matter from then on).
Session(pc, op, user, target) ==
    [pc |-> pc, op |-> op, user |-> user, target |-> target,
     id |-> NULL, content |-> NULL, created_at |-> NULL, medias |-> {}]

IdleSession == Session("idle", "none", NULL, NULL)

\* The store as one value.
Store ==
    [tweets |-> tweets, nextTweetId |-> nextTweetId, now |-> now,
     followers |-> followers, likes |-> likes, medias |-> medias,
     nextMediaId |-> nextMediaId]

\* No follow or like call is remembered.
NoStart == [op |-> "none", user |-> NULL, target |-> NULL, undone |-> FALSE]

\* wait_for_db has not been called.
NoWait == [pc |-> "none"]

\* ------------------------------------------------------------------- reads
\* Tweet.query.get(tweet_id)
TweetExists(t) == t \in DOMAIN tweets

\* Mutation of UserExists: every id is taken to name a user row.
UserExists_Always(v) == TRUE

\* User.query.get(user_id)
UserExists(v) == v \in Users

\* Mutation of existing_like: the existing edge is not seen.
existing_like_Never(u, t) == FALSE

\* tweet.likes.filter(User.id == user.id).first()
existing_like(u, t) == <<u, t>> \in likes

\* user.following: the users the followers table pairs with follower u
following(u) == {v \in Users : <<u, v>> \in followers}

\* user.followers (the backref of following)
followers_of(u) == {w \in Users : <<w, u>> \in followers}

\* tweet.medias
tweet_medias(t) == {m \in DOMAIN medias : medias[m].tweet_id = t}

\* tweet.likes
tweet_likes(t) == {u \in Users : <<u, t>> \in likes}

Init ==
    /\ tweets = <<>>
    /\ nextTweetId = 1
    /\ now = 0
    /\ followers = {}
    /\ likes = {}
    /\ medias = <<>>
    /\ nextMediaId = 1
    /\ calls = 0
    /\ deleted = {}
    /\ detached = {}
    /\ result = NoResult
    /\ sessions = [p \in Procs |-> IdleSession]
    /\ start = NoStart
    /\ wait = NoWait


\* ------------------------------------------------------- the store's writes
\* Mutation of InsertTweet: the insert makes its user the owner of every
\* tweet.
InsertTweet_Reowning(u, content, ts) ==
    /\ tweets' = [t \in DOMAIN tweets \cup {nextTweetId} |->
                    [user_id |-> u,
                     content |-> IF t = nextTweetId
                                 THEN content ELSE tweets[t].content,
                     created_at |-> IF t = nextTweetId
                                    THEN ts ELSE tweets[t].created_at]]
    /\ nextTweetId' = nextTweetId + 1
    /\ now' = ts

\* INSERT INTO tweet: the row takes the next id of the sequence and, as
\* created_at, the clock's reading, which never runs backwards and may
\* repeat (two rows can carry the same timestamp).
InsertTweet(u, content, ts) ==
    /\ tweets' = [t \in DOMAIN tweets \cup {nextTweetId} |->
                    IF t = nextTweetId
                    THEN [user_id |-> u, content |-> content, created_at |-> ts]
                    ELSE tweets[t]]
    /\ nextTweetId' = nextTweetId + 1
    /\ now' = ts

\* Mutation of MediasToAttach: the owner is not compared.
MediasToAttach_AnyOwner(u, media_ids) ==
    {m \in DOMAIN medias : m \in media_ids}

\* Media.query.filter(Media.id.in_(media_ids), Media.user_id == user.id)
\* Mutation of MediasToAttach: rows attached to a tweet already are skipped.
MediasToAttach_Unattached(u, media_ids) ==
    {m \in DOMAIN medias :
        m \in media_ids /\ medias[m].user_id = u /\ medias[m].tweet_id = NULL}

MediasToAttach(u, media_ids) ==
    {m \in DOMAIN medias : m \in media_ids /\ medias[m].user_id = u}

\* for media in medias: media.tweet_id = tweet.id
AttachMedias(u, media_ids, id) ==
    medias' = [m \in DOMAIN medias |->
                 IF m \in MediasToAttach(u, media_ids)
                 THEN [medias[m] EXCEPT !.tweet_id = id]
                 ELSE medias[m]]

\* Mutation of LikesAfterDelete: the association rows are left behind.
LikesAfterDelete_Kept(t) == likes

\* The likes rows left when tweet t is deleted: the session deletes the
\* association rows of the deleted Tweet's likes relationship.
LikesAfterDelete(t) == {e \in likes : e[2] # t}

\* The media rows when tweet t is deleted: Tweet.medias has no delete
\* cascade, so the session sets the children's tweet_id to NULL.
MediasAfterDelete(t) ==
    [m \in DOMAIN medias |->
        IF medias[m].tweet_id = t
        THEN [medias[m] EXCEPT !.tweet_id = NULL]
        ELSE medias[m]]

\* db.session.delete(tweet); db.session.commit()
DeleteTweetRow(t) ==
    /\ tweets' = [x \in DOMAIN tweets \ {t} |-> tweets[x]]
    /\ likes' = LikesAfterDelete(t)
    /\ medias' = MediasAfterDelete(t)
    /\ deleted' = deleted \cup {t}
    /\ detached' = detached \cup {<<t, m>> : m \in tweet_medias(t)}

\* Mutation of LikeInsertStatus: the foreign key to tweet is not enforced.
LikeInsertStatus_NoForeignKey(u, t) ==
    IF <<u, t>> \in likes THEN "PersistenceError" ELSE "ok"

\* Mutation of LikeInsertStatus: tweet_id alone is the key of likes.
LikeInsertStatus_TweetKey(u, t) ==
    IF (\E e \in likes : e[2] = t) \/ ~TweetExists(t)
    THEN "PersistenceError" ELSE "ok"

\* INSERT INTO likes: (user_id, tweet_id) is the primary key and tweet_id a
\* foreign key, so a second row for the pair or a row for a missing tweet
\* raises IntegrityError, which the service reports after a rollback.
LikeInsertStatus(u, t) ==
    IF <<u, t>> \in likes \/ ~TweetExists(t) THEN "PersistenceError" ELSE "ok"

LikeInsert(u, t) ==
    likes' = IF LikeInsertStatus(u, t) = "ok" THEN likes \cup {<<u, t>>} ELSE likes

\* INSERT INTO followers: (follower_id, followed_id) is the primary key.
FollowInsertStatus(u, v) ==
    IF <<u, v>> \in followers THEN "PersistenceError" ELSE "ok"

\* Mutation of FollowInsert: the reverse edge is inserted with the edge.
FollowInsert_Mutual(u, v) ==
    followers' = IF FollowInsertStatus(u, v) = "ok"
                 THEN followers \cup {<<u, v>>, <<v, u>>} ELSE followers

FollowInsert(u, v) ==
    followers' = IF FollowInsertStatus(u, v) = "ok"
                 THEN followers \cup {<<u, v>>} ELSE followers

\* ------------------------------------------------ the service operations
\* create_tweet(user, content, media_ids)
create_tweet_rows(u, content, media_ids) ==
    /\ \E ts \in {now, now + 1} : InsertTweet(u, content, ts)
    /\ AttachMedias(u, media_ids, nextTweetId)
    /\ UNCHANGED <<followers, likes, nextMediaId, deleted, detached>>

create_tweet(u, content, media_ids) ==
    /\ create_tweet_rows(u, content, media_ids)
    /\ result' = [ResultId("create_tweet", u, "ok", nextTweetId)
                    EXCEPT !.media_ids = media_ids, !.tweet_data = content,
                           !.moved = {m \in MediasToAttach(u, media_ids) :
                                        medias[m].tweet_id # NULL}]
    /\ UNCHANGED sessions

\* Mutation of NewMedia: the new row is attached to the latest tweet id.
NewMedia_Attached(u, filename, path) ==
    [user_id |-> u, tweet_id |-> nextTweetId - 1,
     filename |-> filename, path |-> path]

\* Media(filename=filename, path=path, user_id=user.id): tweet_id is not
\* given and the column has no default.
NewMedia(u, filename, path) ==
    [user_id |-> u, tweet_id |-> NULL, filename |-> filename, path |-> path]

\* upload_media(user, filename, path)
upload_media(u, filename, path) ==
    /\ medias' = [m \in DOMAIN medias \cup {nextMediaId} |->
                    IF m = nextMediaId
                    THEN NewMedia(u, filename, path)
                    ELSE medias[m]]
    /\ nextMediaId' = nextMediaId + 1
    /\ result' = ResultId("upload_media", u, "ok", nextMediaId)
    /\ UNCHANGED <<tweets, nextTweetId, now, followers, likes, deleted, detached, sessions>>

\* Mutation of NotOwner: the ownership test is left out.
NotOwner_Never(u, t) == FALSE

\* tweet.user_id != user.id
NotOwner(u, t) == tweets[t].user_id # u

\* Mutation of delete_tweet_check: the tweet is not looked up first.
delete_tweet_check_NoLookup(u, t) ==
    IF TweetExists(t) /\ NotOwner(u, t) THEN "Forbidden" ELSE "ok"

\* delete_tweet(user, tweet_id)
\* lines 57-61: the returns before the try block, "ok" standing for none
delete_tweet_check(u, t) ==
    IF ~TweetExists(t) THEN "NotFound"
    ELSE IF NotOwner(u, t) THEN "Forbidden"
    ELSE "ok"

\* lines 62-65
delete_tweet_rows(u, t) ==
    /\ IF delete_tweet_check(u, t) = "ok"
       THEN DeleteTweetRow(t)
       ELSE UNCHANGED <<tweets, likes, medias, deleted, detached>>
    /\ UNCHANGED <<nextTweetId, now, followers, nextMediaId>>

delete_tweet(u, t) ==
    /\ delete_tweet_rows(u, t)
    /\ result' = IF delete_tweet_check(u, t) = "ok"
                 THEN Committed("delete_tweet", u, t, "ok")
                 ELSE Result("delete_tweet", u, t, delete_tweet_check(u, t))
    /\ UNCHANGED sessions

\* like_tweet(user, tweet_id)
like_tweet(u, t) ==
    /\ IF ~TweetExists(t)
       THEN /\ result' = Result("like_tweet", u, t, "NotFound")
            /\ UNCHANGED likes
       ELSE IF existing_like(u, t)
       THEN /\ result' = Result("like_tweet", u, t, "ok")
            /\ UNCHANGED likes
       ELSE /\ LikeInsert(u, t)
            /\ result' = Committed("like_tweet", u, t, LikeInsertStatus(u, t))
    /\ UNCHANGED <<tweets, nextTweetId, now, followers, medias, nextMediaId,
                   deleted, detached, sessions>>

\* unlike_tweet(user, tweet_id)
unlike_tweet(u, t) ==
    /\ IF ~TweetExists(t)
       THEN /\ result' = Result("unlike_tweet", u, t, "NotFound")
            /\ UNCHANGED likes
       ELSE IF ~existing_like(u, t)
       THEN /\ result' = Result("unlike_tweet", u, t, "ok")
            /\ UNCHANGED likes
       ELSE /\ likes' = likes \ {<<u, t>>}
            /\ result' = Committed("unlike_tweet", u, t, "ok")
    /\ UNCHANGED <<tweets, nextTweetId, now, followers, medias, nextMediaId,
                   deleted, detached, sessions>>

\* Mutation of IsSelf: the self-follow test is left out.
IsSelf_Never(u, v) == FALSE

\* user.id == user_id_to_follow
IsSelf(u, v) == u = v

\* Mutation of is_following: the existing edge is not seen.
is_following_Never(u, v) == FALSE

\* user_to_follow in user.following
is_following(u, v) == v \in following(u)

\* follow_user(user, user_id_to_follow)
follow_user(u, v) ==
    /\ IF IsSelf(u, v)
       THEN /\ result' = Result("follow_user", u, v, "SelfReference")
            /\ UNCHANGED followers
       ELSE IF ~UserExists(v)
       THEN /\ result' = Result("follow_user", u, v, "NotFound")
            /\ UNCHANGED followers
       ELSE IF is_following(u, v)
       THEN /\ result' = Result("follow_user", u, v, "ok")
            /\ UNCHANGED followers
       ELSE /\ FollowInsert(u, v)
            /\ result' = Committed("follow_user", u, v, FollowInsertStatus(u, v))
    /\ UNCHANGED <<tweets, nextTweetId, now, likes, medias, nextMediaId,
                   deleted, detached, sessions>>

\* Mutation of unfollow_user: the edge is reported removed and is kept.
unfollow_user_Kept(u, v) ==
    /\ result' = IF ~UserExists(v)
                 THEN Result("unfollow_user", u, v, "NotFound")
                 ELSE IF ~is_following(u, v)
                 THEN Result("unfollow_user", u, v, "ok")
                 ELSE Committed("unfollow_user", u, v, "ok")
    /\ UNCHANGED <<db, deleted, detached, sessions>>

\* unfollow_user(user, user_id_to_unfollow)
unfollow_user(u, v) ==
    /\ IF ~UserExists(v)
       THEN /\ result' = Result("unfollow_user", u, v, "NotFound")
            /\ UNCHANGED followers
       ELSE IF ~is_following(u, v)
       THEN /\ result' = Result("unfollow_user", u, v, "ok")
            /\ UNCHANGED followers
       ELSE /\ followers' = followers \ {<<u, v>>}
            /\ result' = Committed("unfollow_user", u, v, "ok")
    /\ UNCHANGED <<tweets, nextTweetId, now, likes, medias, nextMediaId,
                   deleted, detached, sessions>>

\* ---------------------------------------------------------- the timeline
\* Mutation of TimelineFilter: the followed users' tweets are left out.
TimelineFilter_OwnOnly(u, t) == tweets[t].user_id = u

\* (Tweet.user_id == user.id) | (Tweet.user_id.in_(followed_ids))
TimelineFilter(u, t) ==
    tweets[t].user_id = u \/ tweets[t].user_id \in following(u)

TimelineRows(u) == {t \in DOMAIN tweets : TimelineFilter(u, t)}

\* Mutation of OrderByCreatedAtDesc: the order is ascending.
OrderByCreatedAtAsc(s) ==
    \A i, j \in 1..Len(s) :
        i < j => tweets[s[i]].created_at <= tweets[s[j]].created_at

\* .order_by(Tweet.created_at.desc()): rows s[i] before s[j] for i < j
OrderByCreatedAtDesc(s) ==
    \A i, j \in 1..Len(s) :
        i < j => tweets[s[i]].created_at >= tweets[s[j]].created_at

\* tweets_query.all(): each selected row once, in an order the ORDER BY
\* allows; the query names no second key, so the store is free in the order
\* of rows with equal created_at.
TimelineQuery(u) ==
    {s \in [1..Cardinality(TimelineRows(u)) -> TimelineRows(u)] :
        /\ \A i, j \in 1..Len(s) : i # j => s[i] # s[j]
        /\ OrderByCreatedAtDesc(s)}

\* Mutation of get_timeline: reading a timeline marks its tweets as liked
\* by the reader.
get_timeline_Marking(u) ==
    /\ \E s \in TimelineQuery(u) :
          result' = [Result("get_timeline", u, NULL, "ok") EXCEPT !.tweets = s]
    /\ likes' = likes \cup {<<u, t>> : t \in TimelineRows(u)}
    /\ UNCHANGED <<tweets, nextTweetId, now, followers, medias, nextMediaId,
                   deleted, detached, sessions>>

\* get_timeline(user): the ids of the returned tweet views, in order
get_timeline(u) ==
    /\ \E s \in TimelineQuery(u) :
          result' = [Result("get_timeline", u, NULL, "ok") EXCEPT !.tweets = s]
    /\ UNCHANGED <<tweets, nextTweetId, now, followers, likes, medias,
                   nextMediaId, deleted, detached, sessions>>

\* Mutation of get_url: the URL is made from the row's path.
get_url_FromPath(m) == <<"/static/uploads/", medias[m].path>>

\* Media.get_url(): f"/static/uploads/{self.filename}", the two parts of the
\* string kept as a pair.
get_url(m) == <<"/static/uploads/", medias[m].filename>>

\* [media.get_url() for media in tweet.medias]: one URL for each row, in no
\* stated order; the list as the bag of its URLs.
attachments(t) ==
    [url \in {get_url(m) : m \in tweet_medias(t)} |->
        Cardinality({m \in tweet_medias(t) : get_url(m) = url})]

\* The view of tweet t in a returned timeline (lines 152-162), likes by the
\* users' ids.
tweet_view(t) ==
    [id |-> t,
     content |-> tweets[t].content,
     attachments |-> attachments(t),
     author |-> tweets[t].user_id,
     likes |-> tweet_likes(t)]

\* ---------------------------------------------------------- the profiles
\* Mutation of serialize_user: the two lists are taken from the wrong sides
\* of the relationship.
serialize_user_Swapped(v) ==
    [id |-> v, followers |-> following(v), following |-> followers_of(v)]

\* serialize_user(user): the ids of the users in the two lists
serialize_user(v) ==
    [id |-> v, followers |-> followers_of(v), following |-> following(v)]

\* The 200 answer of the two profile routes.
ProfileResult(op, u, v) ==
    [Result(op, u, v, "ok") EXCEPT
        !.followers = serialize_user(v).followers,
        !.following = serialize_user(v).following]

\* get_my_profile_route (GET /api/users/me)
get_my_profile(u) ==
    /\ result' = ProfileResult("get_my_profile", u, u)
    /\ UNCHANGED <<db, deleted, detached, sessions>>

\* get_user_profile_route (GET /api/users/<user_id>)
get_user_profile(u, v) ==
    /\ result' = IF UserExists(v)
                 THEN ProfileResult("get_user_profile", u, v)
                 ELSE Result("get_user_profile", u, v, "NotFound")
    /\ UNCHANGED <<db, deleted, detached, sessions>>

\* ------------------------------------------------------ one call at a time
\* One more call is made.
Count ==
    /\ calls < MaxCalls
    /\ calls' = calls + 1
    /\ UNCHANGED wait

Call ==
    /\ Count
    /\ UNCHANGED start

\* No service reads a tweet's content or a media row's filename and path,
\* they are stored and returned: the calls made here all carry a content of
\* the greatest length the route admits and the same file (SpecRoute goes
\* through the route with the other contents, SpecMedia uploads other files).
Next ==
    \/ \E u \in Users, ids \in SUBSET MediaIds :
          Call /\ create_tweet(u, MaxTweetLen, ids)
    \/ \E u \in Users :
          Call /\ upload_media(u, "photo.png", "static/uploads/photo.png")
    \/ \E u \in Users, t \in TweetIds : Call /\ delete_tweet(u, t)
    \/ \E u \in Users, t \in TweetIds : Call /\ like_tweet(u, t)
    \/ \E u \in Users, t \in TweetIds : Call /\ unlike_tweet(u, t)
    \/ \E u \in Users, v \in UserIds : Call /\ follow_user(u, v)
    \/ \E u \in Users, v \in UserIds : Call /\ unfollow_user(u, v)
    \/ \E u \in Users : Call /\ get_timeline(u)
    \/ \E u \in Users : Call /\ get_my_profile(u)
    \/ \E u \in Users, v \in UserIds : Call /\ get_user_profile(u, v)

Spec == Init /\ [][Next]_vars


\* ------------------------------------------------------ the media files
\* The <<filename, path>> pairs upload_media is called with (the service
\* takes the two as separate arguments): one name under two paths.
Files ==
    {<<"photo.png", "static/uploads/photo.png">>,
     <<"photo.png", "tmp/photo.png">>}

Filenames == {f[1] : f \in Files}

\* Media rows of every file name and path are uploaded, attached by
\* create_tweet and detached by delete_tweet.
NextMedia ==
    \/ \E u \in Users, f \in Files : Call /\ upload_media(u, f[1], f[2])
    \/ \E u \in Users, ids \in SUBSET MediaIds :
          Call /\ create_tweet(u, MaxTweetLen, ids)
    \/ \E u \in Users, t \in TweetIds : Call /\ delete_tweet(u, t)

SpecMedia == Init /\ [][NextMedia]_vars


\* ------------------------------------------------- the create-tweet route
\* The tweet_data of a request body, by what the route looks at: NoString
\* for a body without the field or with a value that is not a string,
\* otherwise the length of the string.
NoString == NULL - 1

TweetData == {NoString, 0, 1, MaxTweetLen, MaxTweetLen + 1}

\* not tweet_data or not isinstance(tweet_data, str)
MissingTweetData(tweet_data) == tweet_data = NoString \/ tweet_data = 0

\* Mutation of TooLong: the length is not looked at.
TooLong_Never(tweet_data) == FALSE

\* len(tweet_data) > 280
TooLong(tweet_data) == tweet_data > MaxTweetLen

\* create_tweet_route (POST /api/tweets).  ids_ok: tweet_media_ids is a list
\* of integers.
create_tweet_route(u, tweet_data, ids_ok, media_ids) ==
    IF MissingTweetData(tweet_data) \/ TooLong(tweet_data) \/ ~ids_ok
    THEN /\ result' = [Result("create_tweet", u, NULL, "ValidationError")
                         EXCEPT !.tweet_data = tweet_data]
         /\ UNCHANGED <<db, deleted, detached, sessions>>
    ELSE create_tweet(u, tweet_data, media_ids)

\* Tweets are created through the route, with every kind of tweet_data, and
\* deleted; no media row is uploaded, so the media ids named match no row.
NextRoute ==
    \/ \E u \in Users, tweet_data \in TweetData, ids_ok \in BOOLEAN,
          ids \in SUBSET MediaIds :
          Call /\ create_tweet_route(u, tweet_data, ids_ok, ids)
    \/ \E u \in Users, t \in TweetIds : Call /\ delete_tweet(u, t)

SpecRoute == Init /\ [][NextRoute]_vars


\* ------------------------------------------------------------ round trips
\* The call that takes back a follow or a like.
Undo(op) ==
    CASE op = "follow_user" -> "unfollow_user"
      [] op = "like_tweet" -> "unlike_tweet"
      [] OTHER -> "none"

\* The store before a follow or like call is remembered until the next call;
\* it is kept one call longer when that call is the unfollow or unlike of the
\* same pair.
Remember ==
    start' = IF result'.op \in {"follow_user", "like_tweet"}
             THEN [op |-> result'.op, user |-> result'.user,
                   target |-> result'.target, undone |-> FALSE,
                   store |-> Store]
             ELSE IF /\ start.op # "none"
                     /\ ~start.undone
                     /\ result'.op = Undo(start.op)
                     /\ result'.user = start.user
                     /\ result'.target = start.target
             THEN [start EXCEPT !.undone = TRUE]
             ELSE NoStart

\* The edge mutations, one call at a time, on stores that creations, uploads
\* and deletions have built.
NextTrip ==
    \/ \E u \in Users, ids \in SUBSET MediaIds :
          Count /\ create_tweet(u, MaxTweetLen, ids) /\ Remember
    \/ \E u \in Users :
          /\ Count
          /\ upload_media(u, "photo.png", "static/uploads/photo.png")
          /\ Remember
    \/ \E u \in Users, t \in TweetIds : Count /\ delete_tweet(u, t) /\ Remember
    \/ \E u \in Users, t \in TweetIds : Count /\ like_tweet(u, t) /\ Remember
    \/ \E u \in Users, t \in TweetIds : Count /\ unlike_tweet(u, t) /\ Remember
    \/ \E u \in Users, v \in UserIds : Count /\ follow_user(u, v) /\ Remember
    \/ \E u \in Users, v \in UserIds : Count /\ unfollow_user(u, v) /\ Remember

SpecTrip == Init /\ [][NextTrip]_vars

\* ------------------------------------------------------- waiting for the db
\* main.py, wait_for_db(uri, retries, delay).  create_app calls it once, with
\* the defaults, before the store is bound to the application; retries is a
\* count and delay a duration, neither is negative.
Retries == (0..MaxRetries) \cup {DefaultRetries}
Delays == {0, DefaultDelay}

\* The call is in its loop / it has left the function.
Running == {"for", "except"}
Left == {"return", "RuntimeError", "Error"}

\* Mutation of InRange: the loop runs once more.
InRange_Inclusive(i, retries) == i <= retries

\* for i in range(retries)
InRange(i, retries) == i < retries

\* Line 34: the engine is created, no connection is made yet.  "outcomes"
\* keeps what each engine.connect() did, "slept" the seconds spent in
\* time.sleep.
wait_for_db(retries, delay) ==
    /\ wait.pc = "none"
    /\ wait' = [pc |-> "for", retries |-> retries, delay |-> delay, i |-> 0,
                outcomes |-> <<>>, slept |-> 0]
    /\ UNCHANGED <<db, calls, deleted, detached, result, sessions, start>>

\* Lines 37-39: the connection is made and closed, the function returns.
Connected ==
    /\ wait.pc = "for"
    /\ InRange(wait.i, wait.retries)
    /\ wait' = [wait EXCEPT !.pc = "return",
                            !.outcomes = Append(@, "ok")]
    /\ UNCHANGED <<db, calls, deleted, detached, result, sessions, start>>

\* Lines 37, 40-46: engine.connect() raises OperationalError, which is
\* caught and logged.
Refused ==
    /\ wait.pc = "for"
    /\ InRange(wait.i, wait.retries)
    /\ wait' = [wait EXCEPT !.pc = "except",
                            !.outcomes = Append(@, "OperationalError")]
    /\ UNCHANGED <<db, calls, deleted, detached, result, sessions, start>>

\* Line 37: engine.connect() raises another exception, which no handler
\* catches: it leaves the function.
Failed ==
    /\ wait.pc = "for"
    /\ InRange(wait.i, wait.retries)
    /\ wait' = [wait EXCEPT !.pc = "Error",
                            !.outcomes = Append(@, "Error")]
    /\ UNCHANGED <<db, calls, deleted, detached, result, sessions, start>>

\* Line 47: time.sleep(delay), then the next round of the loop.
Sleep ==
    /\ wait.pc = "except"
    /\ wait' = [wait EXCEPT !.pc = "for", !.i = @ + 1,
                            !.slept = @ + wait.delay]
    /\ UNCHANGED <<db, calls, deleted, detached, result, sessions, start>>

\* Line 48: the loop is over, RuntimeError is raised.
Exhausted ==
    /\ wait.pc = "for"
    /\ ~InRange(wait.i, wait.retries)
    /\ wait' = [wait EXCEPT !.pc = "RuntimeError"]
    /\ UNCHANGED <<db, calls, deleted, detached, result, sessions, start>>

NextWait ==
    \/ \E retries \in Retries, delay \in Delays : wait_for_db(retries, delay)
    \/ Connected
    \/ Refused
    \/ Failed
    \/ Sleep
    \/ Exhausted

\* The function runs in one thread; engine.connect() and time.sleep() come
\* back, so a step that can be taken is taken.
SpecWait == Init /\ [][NextWait]_vars /\ WF_vars(NextWait)

\* ------------------------------------------------- concurrent sessions
\* Each request runs in a session of its own (the scoped db.session): what a
\* call reads is the committed store at that moment, and its commit is a
\* later step, so a second session can read or commit in between.

\* A new request starts in a session that is not in the middle of one.
Free(p) == sessions[p].pc = "idle"

\* The call returns before its try block.
Return(p, op, u, x, status) ==
    /\ result' = Result(op, u, x, status)
    /\ UNCHANGED sessions

\* The call has read the store and goes on to its try block.
Pending(p, op, u, x) ==
    /\ sessions' = [sessions EXCEPT ![p] = Session("commit", op, u, x)]
    /\ UNCHANGED result

\* The call returns from its try block.
Commit(p, status) ==
    /\ result' = [Committed(sessions[p].op, sessions[p].user,
                            sessions[p].target, status)
                    EXCEPT !.concurrent =
                       \E q \in Procs \ {p} : sessions[q].pc = "commit"]
    /\ sessions' = [sessions EXCEPT ![p] = IdleSession]
    /\ UNCHANGED <<start, wait>>

\* DELETE FROM likes / followers for one pair: the session expects one row
\* to match.  With the row already gone the flush raises StaleDataError
\* where the driver reports row counts, and passes where it does not.
DeleteRowStatuses(present) ==
    IF present THEN {"ok"} ELSE {"ok", "PersistenceError"}

\* like_tweet, lines 72-78: the reads and the early returns
BeginLike(p, u, t) ==
    /\ Free(p)
    /\ IF ~TweetExists(t) THEN Return(p, "like_tweet", u, t, "NotFound")
       ELSE IF existing_like(u, t) THEN Return(p, "like_tweet", u, t, "ok")
       ELSE Pending(p, "like_tweet", u, t)
    /\ UNCHANGED <<db, deleted, detached>>

\* like_tweet, lines 80-86: tweet.likes.append(user); db.session.commit()
CommitLike(p) ==
    /\ sessions[p].pc = "commit" /\ sessions[p].op = "like_tweet"
    /\ LikeInsert(sessions[p].user, sessions[p].target)
    /\ Commit(p, LikeInsertStatus(sessions[p].user, sessions[p].target))
    /\ UNCHANGED <<tweets, nextTweetId, now, followers, medias, nextMediaId,
                   calls, deleted, detached>>

\* unlike_tweet, lines 90-96
BeginUnlike(p, u, t) ==
    /\ Free(p)
    /\ IF ~TweetExists(t) THEN Return(p, "unlike_tweet", u, t, "NotFound")
       ELSE IF ~existing_like(u, t) THEN Return(p, "unlike_tweet", u, t, "ok")
       ELSE Pending(p, "unlike_tweet", u, t)
    /\ UNCHANGED <<db, deleted, detached>>

\* unlike_tweet, lines 98-104: tweet.likes.remove(user); db.session.commit()
CommitUnlike(p) ==
    /\ sessions[p].pc = "commit" /\ sessions[p].op = "unlike_tweet"
    /\ likes' = likes \ {<<sessions[p].user, sessions[p].target>>}
    /\ \E st \in DeleteRowStatuses(<<sessions[p].user, sessions[p].target>> \in likes) :
          Commit(p, st)
    /\ UNCHANGED <<tweets, nextTweetId, now, followers, medias, nextMediaId,
                   calls, deleted, detached>>

\* follow_user, lines 108-116
BeginFollow(p, u, v) ==
    /\ Free(p)
    /\ IF IsSelf(u, v) THEN Return(p, "follow_user", u, v, "SelfReference")
       ELSE IF ~UserExists(v) THEN Return(p, "follow_user", u, v, "NotFound")
       ELSE IF is_following(u, v) THEN Return(p, "follow_user", u, v, "ok")
       ELSE Pending(p, "follow_user", u, v)
    /\ UNCHANGED <<db, deleted, detached>>

\* follow_user, lines 118-124
CommitFollow(p) ==
    /\ sessions[p].pc = "commit" /\ sessions[p].op = "follow_user"
    /\ FollowInsert(sessions[p].user, sessions[p].target)
    /\ Commit(p, FollowInsertStatus(sessions[p].user, sessions[p].target))
    /\ UNCHANGED <<tweets, nextTweetId, now, likes, medias, nextMediaId,
                   calls, deleted, detached>>

\* unfollow_user, lines 128-133
BeginUnfollow(p, u, v) ==
    /\ Free(p)
    /\ IF ~UserExists(v) THEN Return(p, "unfollow_user", u, v, "NotFound")
       ELSE IF ~is_following(u, v) THEN Return(p, "unfollow_user", u, v, "ok")
       ELSE Pending(p, "unfollow_user", u, v)
    /\ UNCHANGED <<db, deleted, detached>>

\* unfollow_user, lines 135-141
CommitUnfollow(p) ==
    /\ sessions[p].pc = "commit" /\ sessions[p].op = "unfollow_user"
    /\ followers' = followers \ {<<sessions[p].user, sessions[p].target>>}
    /\ \E st \in DeleteRowStatuses(<<sessions[p].user, sessions[p].target>> \in followers) :
          Commit(p, st)
    /\ UNCHANGED <<tweets, nextTweetId, now, likes, medias, nextMediaId,
                   calls, deleted, detached>>

\* delete_tweet, lines 57-61
BeginDelete(p, u, t) ==
    /\ Free(p)
    /\ IF delete_tweet_check(u, t) = "ok"
       THEN Pending(p, "delete_tweet", u, t)
       ELSE Return(p, "delete_tweet", u, t, delete_tweet_check(u, t))
    /\ UNCHANGED <<db, deleted, detached>>

\* delete_tweet, lines 62-68: db.session.delete(tweet); db.session.commit().
\* The flush reads the tweet's likes and medias as they are now, deletes and
\* detaches them and deletes the tweet row; with the row already deleted by
\* another session the DELETE matches no row (DeleteRowStatuses).
CommitDelete(p) ==
    /\ sessions[p].pc = "commit" /\ sessions[p].op = "delete_tweet"
    /\ \E st \in DeleteRowStatuses(TweetExists(sessions[p].target)) :
          /\ IF st = "ok"
             THEN DeleteTweetRow(sessions[p].target)
             ELSE UNCHANGED <<tweets, likes, medias, deleted, detached>>
          /\ Commit(p, st)
    /\ UNCHANGED <<nextTweetId, now, followers, nextMediaId, calls>>

\* The edge mutations and delete_tweet split into their two steps; tweets
\* are created by calls that run to completion between those steps.
NextConc ==
    \/ \E u \in Users : Call /\ create_tweet(u, MaxTweetLen, {})
    \/ \E p \in Procs, u \in Users, t \in TweetIds : Call /\ BeginDelete(p, u, t)
    \/ \E p \in Procs : CommitDelete(p)
    \/ \E p \in Procs, u \in Users, t \in TweetIds : Call /\ BeginLike(p, u, t)
    \/ \E p \in Procs : CommitLike(p)
    \/ \E p \in Procs, u \in Users, t \in TweetIds : Call /\ BeginUnlike(p, u, t)
    \/ \E p \in Procs : CommitUnlike(p)
    \/ \E p \in Procs, u \in Users, v \in UserIds : Call /\ BeginFollow(p, u, v)
    \/ \E p \in Procs : CommitFollow(p)
    \/ \E p \in Procs, u \in Users, v \in UserIds : Call /\ BeginUnfollow(p, u, v)
    \/ \E p \in Procs : CommitUnfollow(p)

SpecConc == Init /\ [][NextConc]_vars

\* Two sessions run the edge mutations while tweets are created and none is
\* deleted.
NextEdges ==
    \/ \E u \in Users : Call /\ create_tweet(u, MaxTweetLen, {})
    \/ \E p \in Procs, u \in Users, t \in TweetIds : Call /\ BeginLike(p, u, t)
    \/ \E p \in Procs : CommitLike(p)
    \/ \E p \in Procs, u \in Users, t \in TweetIds : Call /\ BeginUnlike(p, u, t)
    \/ \E p \in Procs : CommitUnlike(p)
    \/ \E p \in Procs, u \in Users, v \in UserIds : Call /\ BeginFollow(p, u, v)
    \/ \E p \in Procs : CommitFollow(p)
    \/ \E p \in Procs, u \in Users, v \in UserIds : Call /\ BeginUnfollow(p, u, v)
    \/ \E p \in Procs : CommitUnfollow(p)

SpecEdges == Init /\ [][NextEdges]_vars


\* ------------------------------------------- create_tweet's unit of work
\* create_tweet, lines 16-26: the flush inserts the tweet row inside the
\* session's transaction, taking the next id of the sequence (which is not
\* given back on a rollback) and the clock's reading; the media query reads
\* the committed rows; the assignments of tweet_id wait in the session.
\* Nothing of it is in the committed store yet.
FlushCreate(p, u, content, media_ids) ==
    /\ Free(p)
    /\ \E ts \in {now, now + 1} :
          /\ now' = ts
          /\ sessions' = [sessions EXCEPT ![p] =
                [Session("commit", "create_tweet", u, NULL) EXCEPT
                    !.id = nextTweetId,
                    !.content = content,
                    !.created_at = ts,
                    !.medias = MediasToAttach(u, media_ids)]]
    /\ nextTweetId' = nextTweetId + 1
    /\ UNCHANGED <<tweets, followers, likes, medias, nextMediaId, deleted,
                   detached, result>>

\* Mutation of AttachPending: the attachments are not part of the commit.
AttachPending_Lost(p) == medias

\* The media table once the session's pending tweet_id assignments are
\* written (lines 25-26, sent with the commit of line 28).
AttachPending(p) ==
    [m \in DOMAIN medias |->
        IF m \in sessions[p].medias
        THEN [medias[m] EXCEPT !.tweet_id = sessions[p].id]
        ELSE medias[m]]

\* create_tweet, lines 28-29: db.session.commit() makes the tweet row and the
\* attachments visible in one step.
CommitCreate(p) ==
    /\ sessions[p].pc = "commit" /\ sessions[p].op = "create_tweet"
    /\ tweets' = [t \in DOMAIN tweets \cup {sessions[p].id} |->
                    IF t = sessions[p].id
                    THEN [user_id |-> sessions[p].user,
                          content |-> sessions[p].content,
                          created_at |-> sessions[p].created_at]
                    ELSE tweets[t]]
    /\ medias' = AttachPending(p)
    /\ result' = ResultId("create_tweet", sessions[p].user, "ok", sessions[p].id)
    /\ sessions' = [sessions EXCEPT ![p] = IdleSession]
    /\ UNCHANGED <<start, wait>>
    /\ UNCHANGED <<nextTweetId, now, followers, likes, nextMediaId, calls,
                   deleted, detached>>

\* create_tweet, lines 30-32: the commit raises SQLAlchemyError; the session
\* is rolled back and the error reported.
FailCreate(p) ==
    /\ sessions[p].pc = "commit" /\ sessions[p].op = "create_tweet"
    /\ result' = Committed("create_tweet", sessions[p].user, NULL,
                            "PersistenceError")
    /\ sessions' = [sessions EXCEPT ![p] = IdleSession]
    /\ UNCHANGED <<start, wait>>
    /\ UNCHANGED <<db, calls, deleted, detached>>

\* Two sessions create tweets while media rows are uploaded by calls that
\* run to completion.
NextTx ==
    \/ \E u \in Users :
          Call /\ upload_media(u, "photo.png", "static/uploads/photo.png")
    \/ \E p \in Procs, u \in Users, ids \in SUBSET MediaIds :
          Call /\ FlushCreate(p, u, MaxTweetLen, ids)
    \/ \E p \in Procs : CommitCreate(p)
    \/ \E p \in Procs : FailCreate(p)

SpecTx == Init /\ [][NextTx]_vars


\* ------------------------------------------------------- store failures
\* The store can fail at any statement a call sends it (a lost connection,
\* a timeout): the statement raises SQLAlchemyError.  What becomes of the
\* error depends on where the statement stands in the service.

MutationOps ==
    {"create_tweet", "upload_media", "delete_tweet", "like_tweet",
     "unlike_tweet", "follow_user", "unfollow_user"}

\* What a call of op names besides its user.
Targets(op) ==
    IF op \in {"create_tweet", "upload_media"} THEN {NULL}
    ELSE IF op \in {"follow_user", "unfollow_user"} THEN UserIds
    ELSE TweetIds

\* The services whose statements all stand inside the try block:
\* create_tweet (lines 15-32) and upload_media (lines 42-49).  The others
\* query the store before their try block: Tweet.query.get (57, 72, 90),
\* tweet.likes.filter (76, 94), User.query.get (111, 128) and
\* `in user.following` (115, 132).
InTry(op) == op \in {"create_tweet", "upload_media"}

\* The call sends a query before its commit: upload_media sends none, and
\* follow_user returns on user.id == user_id_to_follow before its first.
HasQuery(op, u, x) ==
    /\ op # "upload_media"
    /\ op = "follow_user" => ~IsSelf(u, x)

\* The call goes as far as db.session.commit().
ReachesCommit(op, u, x) ==
    CASE op \in {"create_tweet", "upload_media"} -> TRUE
      [] op = "delete_tweet" -> delete_tweet_check(u, x) = "ok"
      [] op = "like_tweet" -> TweetExists(x) /\ ~existing_like(u, x)
      [] op = "unlike_tweet" -> TweetExists(x) /\ existing_like(u, x)
      [] op = "follow_user" ->
            ~IsSelf(u, x) /\ UserExists(x) /\ ~is_following(u, x)
      [] op = "unfollow_user" -> UserExists(x) /\ is_following(u, x)

\* The store fails at the call's first query.  Inside the try block the
\* error is caught, the session rolled back and (False, str(e)) returned;
\* outside it nothing catches the error.
QueryFails(op, u, x) ==
    /\ HasQuery(op, u, x)
    /\ result' = Result(op, u, x,
                        IF InTry(op) THEN "PersistenceError" ELSE "Unhandled")
    /\ UNCHANGED <<db, deleted, detached, sessions>>

\* The store fails at the call's db.session.commit(): except
\* SQLAlchemyError, db.session.rollback(), return False, str(e).
CommitFails(op, u, x) ==
    /\ ReachesCommit(op, u, x)
    /\ result' = Committed(op, u, x, "PersistenceError")
    /\ UNCHANGED <<db, deleted, detached, sessions>>

\* The mutations one call at a time, over a store that can fail.
NextFault ==
    \/ \E u \in Users, ids \in SUBSET MediaIds :
          Call /\ create_tweet(u, MaxTweetLen, ids)
    \/ \E u \in Users :
          Call /\ upload_media(u, "photo.png", "static/uploads/photo.png")
    \/ \E u \in Users, t \in TweetIds : Call /\ delete_tweet(u, t)
    \/ \E u \in Users, t \in TweetIds : Call /\ like_tweet(u, t)
    \/ \E u \in Users, t \in TweetIds : Call /\ unlike_tweet(u, t)
    \/ \E u \in Users, v \in UserIds : Call /\ follow_user(u, v)
    \/ \E u \in Users, v \in UserIds : Call /\ unfollow_user(u, v)
    \/ \E op \in MutationOps, u \in Users : \E x \in Targets(op) :
          Call /\ QueryFails(op, u, x)
    \/ \E op \in MutationOps, u \in Users : \E x \in Targets(op) :
          Call /\ CommitFails(op, u, x)

SpecFault == Init /\ [][NextFault]_vars


\* ====================================================== the properties
\* The ids of the tweets a returned timeline holds.
Ids(s) == {s[i] : i \in DOMAIN s}

\* A step of Spec in which the call op(u, x) was made and returned.
Called(op, u, x) ==
    /\ calls' = calls + 1
    /\ result'.op = op
    /\ result'.user = u
    /\ result'.target = x

\* No row of the store and no history of it changes.
StoreUnchanged == UNCHANGED <<db, deleted, detached>>

\* U's own tweets and those of the users U follows, by the tables alone.
OwnOrFollowed(u) ==
    {t \in 1..nextTweetId :
        /\ t \in DOMAIN tweets
        /\ \/ tweets[t].user_id = u
           \/ <<u, tweets[t].user_id>> \in followers}

\* C1: in every state reached by createTweet, deleteTweet, followUser and
\* unfollowUser (and the other calls), for every user U, getTimeline(U) holds
\* a tweet T if and only if T exists and T's owner is U or a user U follows:
\* of every sequence the query can return, and of the one a call returned.
C1_TimelineSoundComplete ==
    /\ \A u \in Users : \A s \in TimelineQuery(u) : Ids(s) = OwnOrFollowed(u)
    /\ result.op = "get_timeline" =>
          Ids(result.tweets) = OwnOrFollowed(result.user)

\* A timeline was returned that holds a tweet of its user and a tweet of a
\* user they follow.
C1_Witness ==
    /\ result.op = "get_timeline"
    /\ \E t \in Ids(result.tweets) : tweets[t].user_id = result.user
    /\ \E t \in Ids(result.tweets) :
          /\ tweets[t].user_id # result.user
          /\ <<result.user, tweets[t].user_id>> \in followers


\* C3: with calls made one at a time, likeTweet(U,T) on an existing tweet T
\* reports success and leaves the like edge (U,T) in the table; made when
\* the edge already exists it changes nothing.  unlikeTweet(U,T) on an
\* existing tweet U has not liked reports success and changes nothing.
C3_LikeIdempotent ==
    [][\A u \in Users : \A t \in DOMAIN tweets :
          /\ Called("like_tweet", u, t) =>
                /\ result'.status = "ok"
                /\ <<u, t>> \in likes'
                /\ <<u, t>> \in likes => StoreUnchanged
          /\ Called("unlike_tweet", u, t) /\ <<u, t>> \notin likes =>
                /\ result'.status = "ok"
                /\ StoreUnchanged]_vars

\* likeTweet(U,T) has returned from its existing-like branch: it was called
\* with the edge (U,T) already there.
C3_Witness ==
    /\ result.op = "like_tweet"
    /\ result.status = "ok"
    /\ ~result.commit
    /\ <<result.user, result.target>> \in likes

\* C4: with calls made one at a time, followUser(U,V) with V an existing
\* user other than U reports success and leaves the follow edge (U,V) in the
\* table; made when the edge already exists it changes nothing.
\* unfollowUser(U,V) on an existing user V that U does not follow reports
\* success and changes nothing.
C4_FollowIdempotent ==
    [][\A u \in Users : \A v \in Users :
          /\ Called("follow_user", u, v) /\ u # v =>
                /\ result'.status = "ok"
                /\ <<u, v>> \in followers'
                /\ <<u, v>> \in followers => StoreUnchanged
          /\ Called("unfollow_user", u, v) /\ <<u, v>> \notin followers =>
                /\ result'.status = "ok"
                /\ StoreUnchanged]_vars

\* followUser(U,V) has returned from its already-following branch.
C4_Witness ==
    /\ result.op = "follow_user"
    /\ result.status = "ok"
    /\ ~result.commit
    /\ <<result.user, result.target>> \in followers

\* C6: deleteTweet(U,T) on an existing tweet T whose owner is not U fails
\* with Forbidden and changes nothing: T, its like edges and its media
\* attachments are still there and every timeline selects what it did.
C6_DeleteForbidden ==
    [][\A u \in Users : \A t \in DOMAIN tweets :
          Called("delete_tweet", u, t) /\ tweets[t].user_id # u =>
             /\ result'.status = "Forbidden"
             /\ StoreUnchanged
             /\ t \in DOMAIN tweets'
             /\ {e \in likes' : e[2] = t} = {e \in likes : e[2] = t}
             /\ {m \in DOMAIN medias' : medias'[m].tweet_id = t} = tweet_medias(t)
             /\ \A w \in Users : TimelineQuery(w)' = TimelineQuery(w)]_vars

\* A delete was refused for a tweet that has a like edge and a media row.
C6_Witness ==
    /\ result.op = "delete_tweet"
    /\ result.status = "Forbidden"
    /\ result.target \in DOMAIN tweets
    /\ tweet_medias(result.target) # {}
    /\ \E e \in likes : e[2] = result.target

\* C7: followUser(U,U) fails with SelfReference in every reachable state and
\* changes nothing.
C7_SelfFollowRefused ==
    [][\A u \in Users :
          Called("follow_user", u, u) =>
             /\ result'.status = "SelfReference"
             /\ StoreUnchanged]_vars

\* followUser(U,U) was refused in a state with a follow edge, a tweet and a
\* like edge.
C7_Witness ==
    /\ result.op = "follow_user"
    /\ result.user = result.target
    /\ result.status = "SelfReference"
    /\ followers # {}
    /\ DOMAIN tweets # {}
    /\ likes # {}

\* C9: in every returned timeline a tweet that comes before another has a
\* creation timestamp greater than or equal to the other's.
C9_TimelineNonIncreasing ==
    /\ \A u \in Users : \A s \in TimelineQuery(u) :
          \A i \in 1..(Len(s) - 1) :
             tweets[s[i]].created_at >= tweets[s[i + 1]].created_at
    /\ result.op = "get_timeline" =>
          \A i \in 1..(Len(result.tweets) - 1) :
             tweets[result.tweets[i]].created_at
                >= tweets[result.tweets[i + 1]].created_at

\* A timeline of two tweets with different timestamps was returned.
C9_Witness ==
    /\ result.op = "get_timeline"
    /\ Len(result.tweets) >= 2
    /\ tweets[result.tweets[1]].created_at > tweets[result.tweets[2]].created_at

\* C10: in every returned timeline two tweets with equal creation timestamps
\* come in descending id order.
C10_TiesByIdDescending ==
    result.op = "get_timeline" =>
       \A i, j \in 1..Len(result.tweets) :
          (/\ i < j
           /\ tweets[result.tweets[i]].created_at
                 = tweets[result.tweets[j]].created_at)
          => result.tweets[i] > result.tweets[j]


\* What holds of a deleted tweet T whatever came after its deletion: T is
\* not retrievable by id, no timeline holds it, no like edge names it.
Gone(t) ==
    /\ ~TweetExists(t)
    /\ \A u \in Users : \A s \in TimelineQuery(u) : t \notin Ids(s)
    /\ \A e \in likes : e[2] # t

\* C5 as stated: after deleteTweet(U,T) succeeds, in the resulting state and
\* every later state T is not retrievable by id and is in no timeline, no
\* like edge names T, and every Media row that was attached to T still
\* exists with no tweet attachment.
C5_AsStated ==
    /\ \A t \in deleted : Gone(t)
    /\ \A d \in detached :
          /\ d[2] \in DOMAIN medias
          /\ medias[d[2]].tweet_id = NULL

\* C5 as amended: after deleteTweet(U,T) succeeds, in the resulting state and
\* every later state T is not retrievable by id and is in no timeline, no
\* like edge names T, and every Media row that was attached to T still
\* exists and is not attached to T; the row has no tweet attachment in the
\* resulting state, and the only step that gives it one again is a
\* createTweet of its owner, which attaches it to the new tweet.
C5_DeleteCascade ==
    /\ [](/\ \A t \in deleted : Gone(t)
          /\ \A d \in detached :
                /\ d[2] \in DOMAIN medias
                /\ medias[d[2]].tweet_id # d[1]
                /\ (/\ result.op = "delete_tweet"
                    /\ result.status = "ok"
                    /\ result.target = d[1]) => medias[d[2]].tweet_id = NULL)
    /\ [][\A d \in detached :
             (medias[d[2]].tweet_id = NULL /\ medias'[d[2]].tweet_id # NULL) =>
                /\ result'.op = "create_tweet"
                /\ result'.user = medias[d[2]].user_id
                /\ medias'[d[2]].tweet_id = result'.id]_vars

\* A tweet with a media row attached was deleted by its owner.
C5_Witness ==
    /\ result.op = "delete_tweet"
    /\ result.status = "ok"
    /\ \E d \in detached : d[1] = result.target

\* ------------------------------------------------ concurrent sessions
\* Session p returns from its try block in this step.
Commits(p) == sessions[p].pc = "commit" /\ sessions'[p].pc = "idle"

\* The last call to return was the same edge mutation as the one session p
\* is about to commit, and it committed: the two calls ran concurrently,
\* both having read the edge as it was before either committed.
RacesLast(p) ==
    /\ sessions[p].pc = "commit"
    /\ result.commit
    /\ result.op = sessions[p].op
    /\ result.user = sessions[p].user
    /\ result.target = sessions[p].target

\* C2: when two callers concurrently run the same edge mutation on the same
\* edge (likeTweet or followUser with the edge absent, unlikeTweet or
\* unfollowUser with it present), both calls report success and the edge is
\* there once (respectively not there) at the end.
C2_ConcurrentIdempotent ==
    [][\A p \in Procs :
          Commits(p) /\ RacesLast(p) /\ result.status = "ok" =>
             /\ result'.status = "ok"
             /\ sessions[p].op = "like_tweet" =>
                   <<sessions[p].user, sessions[p].target>> \in likes'
             /\ sessions[p].op = "unlike_tweet" =>
                   <<sessions[p].user, sessions[p].target>> \notin likes'
             /\ sessions[p].op = "follow_user" =>
                   <<sessions[p].user, sessions[p].target>> \in followers'
             /\ sessions[p].op = "unfollow_user" =>
                   <<sessions[p].user, sessions[p].target>> \notin followers']_vars

\* C8: in every state reached by any interleaving of the mutation
\* operations, no follow edge has its follower equal to its followed user.
C8_NoSelfFollow == \A e \in followers : e[1] # e[2]

\* A self-follow was refused in a state that has a follow edge.
C8_Witness ==
    /\ result.op = "follow_user"
    /\ result.user = result.target
    /\ result.status = "SelfReference"
    /\ followers # {}

\* ------------------------------------------------------- media attachment
\* C11: createTweet(user, content, mediaIds) succeeds and attaches to the new
\* tweet exactly the Media rows whose id is in mediaIds and whose owner is
\* user, whatever else mediaIds names (ids of no row, ids of other users'
\* rows); every other Media row, those of other users among them, is left
\* as it was.
C11_AttachExactly ==
    [][\A u \in Users :
          Called("create_tweet", u, NULL) =>
             /\ result'.status = "ok"
             /\ result'.id \in DOMAIN tweets' \ DOMAIN tweets
             /\ DOMAIN medias' = DOMAIN medias
             /\ {m \in DOMAIN medias' : medias'[m].tweet_id = result'.id}
                   = {m \in result'.media_ids :
                         m \in DOMAIN medias /\ medias[m].user_id = u}
             /\ \A m \in DOMAIN medias :
                   \/ m \notin result'.media_ids
                   \/ medias[m].user_id # u
                   => medias'[m] = medias[m]]_vars

\* A tweet was created from media ids naming a row of its author, a row of
\* another user and no row: the first is attached to it, the second is not.
C11_Witness ==
    /\ result.op = "create_tweet"
    /\ result.status = "ok"
    /\ \E m \in result.media_ids : m \notin DOMAIN medias
    /\ \E m \in result.media_ids \cap DOMAIN medias :
          /\ medias[m].user_id = result.user
          /\ medias[m].tweet_id = result.id
    /\ \E m \in result.media_ids \cap DOMAIN medias :
          /\ medias[m].user_id # result.user
          /\ medias[m].tweet_id # result.id

\* C12: in every reachable state every Media row attached to a tweet has the
\* owner of that tweet, which exists.
C12_AttachedSameOwner ==
    \A m \in DOMAIN medias :
       medias[m].tweet_id # NULL =>
          /\ medias[m].tweet_id \in DOMAIN tweets
          /\ tweets[medias[m].tweet_id].user_id = medias[m].user_id

\* A media row is attached to a tweet that was created from media ids naming
\* another user's row too.
C12_Witness ==
    /\ \E m \in DOMAIN medias : medias[m].tweet_id # NULL
    /\ result.op = "create_tweet"
    /\ \E m \in result.media_ids \cap DOMAIN medias :
          medias[m].user_id # result.user

\* ------------------------------------------------------ like edge endpoints
\* C13: in every state reached by any interleaving of likeTweet, unlikeTweet
\* and deleteTweet (likeTweet(U,T) running concurrently with a deleteTweet of
\* T included), every like edge names a user row and a tweet row that exist.
C13_LikeEndpointsExist ==
    \A e \in likes : e[1] \in Users /\ e[2] \in DOMAIN tweets

\* likeTweet(U,T) read T, T was deleted before the like's commit, and the
\* commit was refused.
C13_Witness ==
    /\ result.op = "like_tweet"
    /\ result.commit
    /\ result.status = "PersistenceError"
    /\ result.target \in deleted
    /\ <<result.user, result.target>> \notin likes

\* ------------------------------------------- create_tweet's unit of work
\* C14: createTweet is atomic.  While a createTweet is in flight no other
\* caller can see its tweet or any of its attachments; the step that makes
\* the tweet visible makes every media row it attaches attached to it; and
\* when the commit fails the call reports PersistenceError and neither the
\* tweet row nor any attachment of it is in the store.
C14_CreateAtomic ==
    /\ [](\A p \in Procs :
             sessions[p].op = "create_tweet" =>
                /\ sessions[p].id \notin DOMAIN tweets
                /\ tweet_medias(sessions[p].id) = {})
    /\ [][\A p \in Procs :
             Commits(p) /\ sessions[p].op = "create_tweet" =>
                IF sessions[p].id \in DOMAIN tweets'
                THEN /\ result'.status = "ok"
                     /\ result'.id = sessions[p].id
                     /\ {m \in DOMAIN medias' :
                            medias'[m].tweet_id = sessions[p].id}
                           = sessions[p].medias
                ELSE /\ result'.status = "PersistenceError"
                     /\ StoreUnchanged
                     /\ \A m \in DOMAIN medias' :
                           medias'[m].tweet_id # sessions[p].id]_vars

\* A createTweet that had selected a media row failed at its commit: the row
\* is attached to no tweet, while another tweet has its media attached.
C14_Witness ==
    /\ result.op = "create_tweet"
    /\ result.status = "PersistenceError"
    /\ \E m \in DOMAIN medias : medias[m].tweet_id = NULL
    /\ \E t \in DOMAIN tweets : tweet_medias(t) # {}

\* ------------------------------------------------------- store failures
\* C15: for every mutation operation, a failure of the store at any step of
\* the call is reported as a PersistenceError outcome, never as an unhandled
\* failure, and leaves the store as it was before the call.
C15_FailuresReported ==
    [][calls' = calls + 1 =>
          /\ result'.status # "Unhandled"
          /\ result'.status = "PersistenceError" => StoreUnchanged]_vars

\* ------------------------------------------------------ content length
\* C16: creating a tweet whose content is empty or longer than 280
\* characters fails with ValidationError and creates no row; every tweet in
\* every reachable state has a content of length between 1 and 280.
C16_ContentLength ==
    /\ [](\A t \in DOMAIN tweets : tweets[t].content \in 1..MaxTweetLen)
    /\ [][\A u \in Users :
             (/\ Called("create_tweet", u, NULL)
              /\ \/ result'.tweet_data = 0
                 \/ result'.tweet_data > MaxTweetLen)
             => /\ result'.status = "ValidationError"
                /\ StoreUnchanged]_vars

\* A tweet of 281 characters was refused; tweets of 1 and of 280 characters
\* are in the table.
C16_Witness ==
    /\ result.op = "create_tweet"
    /\ result.status = "ValidationError"
    /\ result.tweet_data = MaxTweetLen + 1
    /\ \E t \in DOMAIN tweets : tweets[t].content = 1
    /\ \E t \in DOMAIN tweets : tweets[t].content = MaxTweetLen

\* ------------------------------------------------------------- not found
\* C17: deleteTweet(U,T) when no tweet with id T exists fails with NotFound
\* for every caller U, the former owner of a deleted T included, and changes
\* nothing; so a second deleteTweet(U,T) after a successful one reports
\* NotFound.
C17_DeleteNotFound ==
    [][\A u \in Users : \A t \in TweetIds :
          Called("delete_tweet", u, t) /\ (t \notin DOMAIN tweets \/ t \in deleted) =>
             /\ result'.status = "NotFound"
             /\ StoreUnchanged]_vars

\* A deleteTweet of an already deleted tweet has reported NotFound.
C17_Witness ==
    /\ result.op = "delete_tweet"
    /\ result.status = "NotFound"
    /\ result.target \in deleted

\* C18: likeTweet and unlikeTweet on a tweet id that names no tweet (never
\* created, or deleted), and followUser and unfollowUser on a user id that
\* names no user, fail with NotFound and change nothing.
C18_NotFound ==
    [][\A u \in Users :
          /\ \A t \in TweetIds :
                (/\ Called("like_tweet", u, t) \/ Called("unlike_tweet", u, t)
                 /\ t \notin DOMAIN tweets)
                => /\ result'.status = "NotFound"
                   /\ StoreUnchanged
          /\ \A v \in UserIds \ Users :
                Called("follow_user", u, v) \/ Called("unfollow_user", u, v)
                => /\ result'.status = "NotFound"
                   /\ StoreUnchanged]_vars

\* An unlikeTweet of a deleted tweet has reported NotFound.
C18_Witness ==
    /\ result.op = "unlike_tweet"
    /\ result.status = "NotFound"
    /\ result.target \in deleted

\* ------------------------------------------------------------- the reads
\* A profile was returned in this step or state.
IsProfile(r) ==
    /\ r.op \in {"get_my_profile", "get_user_profile"}
    /\ r.status = "ok"

\* A step in which a call of op was made and returned success.
Did(op) ==
    /\ calls' = calls + 1
    /\ result'.op = op
    /\ result'.status = "ok"

\* C19: every getTimeline or getProfile call that starts after a mutation's
\* commit has returned reflects that mutation.  Each read returns what the
\* store holds when it is made (a timeline holds the rows its query selects
\* then, a profile the lists of then), and from the state a commit leaves: a
\* created tweet is among the timeline rows of its author and of the
\* author's followers, a deleted tweet among those of nobody, an added or
\* removed like is or is not in the tweet's likers list, and an added or
\* removed follow edge is or is not in both users' profiles.
C19_ReadsReflectCommits ==
    [][/\ Did("create_tweet") =>
             \A u, w \in Users :
                result'.user = u /\ (w = u \/ <<w, u>> \in followers') =>
                   result'.id \in TimelineRows(w)'
       /\ Did("delete_tweet") =>
             \A t \in TweetIds : \A w \in Users :
                result'.target = t => t \notin TimelineRows(w)'
       /\ Did("like_tweet") =>
             \A u \in Users : \A t \in TweetIds :
                result'.user = u /\ result'.target = t =>
                   u \in tweet_view(t)'.likes
       /\ Did("unlike_tweet") =>
             \A u \in Users : \A t \in TweetIds :
                result'.user = u /\ result'.target = t =>
                   u \notin tweet_view(t)'.likes
       /\ Did("follow_user") =>
             \A u, v \in Users :
                result'.user = u /\ result'.target = v =>
                   /\ v \in serialize_user(u)'.following
                   /\ u \in serialize_user(v)'.followers
       /\ Did("unfollow_user") =>
             \A u, v \in Users :
                result'.user = u /\ result'.target = v =>
                   /\ v \notin serialize_user(u)'.following
                   /\ u \notin serialize_user(v)'.followers
       /\ Did("get_timeline") =>
             \A u \in Users :
                result'.user = u =>
                   /\ result'.tweets \in TimelineQuery(u)'
                   /\ Ids(result'.tweets) = TimelineRows(u)'
       /\ Did("get_my_profile") \/ Did("get_user_profile") =>
             \A u \in Users :
                result'.target = u =>
                   /\ result'.followers = serialize_user(u)'.followers
                   /\ result'.following = serialize_user(u)'.following]_vars

\* A timeline was returned that holds a tweet of a user its reader follows,
\* with the reader in the tweet's likers list: a create, a follow and a like
\* were committed before the read.
C19_Witness ==
    /\ result.op = "get_timeline"
    /\ \E t \in Ids(result.tweets) :
          /\ tweet_view(t).author # result.user
          /\ result.user \in tweet_view(t).likes

\* C20: in every reachable state getProfile(U).following is exactly the set
\* of users V with a follow edge (U,V) and getProfile(U).followers exactly
\* the set of users W with a follow edge (W,U), of every profile the routes
\* can return and of the one a call returned; so V is in U's following if
\* and only if U is in V's followers.
C20_ProfileLists ==
    /\ \A u \in Users :
          /\ serialize_user(u).following
                = {v \in UserIds : <<u, v>> \in followers}
          /\ serialize_user(u).followers
                = {w \in UserIds : <<w, u>> \in followers}
    /\ \A u, v \in Users :
          v \in serialize_user(u).following <=> u \in serialize_user(v).followers
    /\ IsProfile(result) =>
          /\ result.following
                = {v \in UserIds : <<result.target, v>> \in followers}
          /\ result.followers
                = {w \in UserIds : <<w, result.target>> \in followers}

\* The profile of a user who follows someone and whom nobody follows was
\* returned.
C20_Witness ==
    /\ IsProfile(result)
    /\ result.following # {}
    /\ result.followers = {}

\* ------------------------------------------------- disjoint mutations
EdgeOps == {"like_tweet", "unlike_tweet", "follow_user", "unfollow_user"}

\* Session p is between the reads and the commit of an edge mutation.
InFlight(p) == sessions[p].pc = "commit" /\ sessions[p].op \in EdgeOps

\* The edge a session's call is about, with its table.
EdgeOf(x) ==
    <<IF x.op \in {"like_tweet", "unlike_tweet"} THEN "likes" ELSE "followers",
      x.user, x.target>>

\* What session p read before its try block still holds of the store.
ReadHolds(p) ==
    LET u == sessions[p].user
        x == sessions[p].target
    IN  CASE sessions[p].op = "like_tweet" ->
                x \in DOMAIN tweets /\ <<u, x>> \notin likes
          [] sessions[p].op = "unlike_tweet" ->
                x \in DOMAIN tweets /\ <<u, x>> \in likes
          [] sessions[p].op = "follow_user" ->
                x \in Users /\ <<u, x>> \notin followers
          [] sessions[p].op = "unfollow_user" ->
                x \in Users /\ <<u, x>> \in followers
          [] OTHER -> FALSE

\* The step does to the store what session p's call does when it runs alone.
AloneEffect(p) ==
    LET e == <<sessions[p].user, sessions[p].target>>
    IN  /\ likes' = CASE sessions[p].op = "like_tweet" -> likes \cup {e}
                       [] sessions[p].op = "unlike_tweet" -> likes \ {e}
                       [] OTHER -> likes
        /\ followers' = CASE sessions[p].op = "follow_user" -> followers \cup {e}
                           [] sessions[p].op = "unfollow_user" -> followers \ {e}
                           [] OTHER -> followers
        /\ UNCHANGED <<tweets, nextTweetId, now, medias, nextMediaId, deleted,
                       detached>>

\* C21: when two edge mutations on different edges (followUser(U,V) and
\* followUser(W,X), likeTweet(U,T) and likeTweet(W,T), ...) run concurrently,
\* under every interleaving both report success and the final state is the
\* one reached by running them one after the other in either order.  The
\* commit of either leaves what the other has read as it was; and a commit
\* made while what the call read still holds reports success and adds or
\* removes the call's own edge and nothing else, so the two commits give the
\* same store in both orders, the one the two calls give when run alone.
C21_DisjointCommute ==
    [][/\ \A p \in Procs :
             Commits(p) /\ InFlight(p) /\ ReadHolds(p) =>
                /\ result'.status = "ok"
                /\ AloneEffect(p)
       /\ \A p, q \in Procs :
             (/\ p # q
              /\ Commits(p) /\ InFlight(p) /\ InFlight(q)
              /\ EdgeOf(sessions[p]) # EdgeOf(sessions[q])
              /\ ReadHolds(q))
             => ReadHolds(q)']_vars

\* likeTweet(U,T) has committed with success while likeTweet(W,T) of another
\* user, which had read T before that commit, is waiting for its own.
C21_Witness ==
    /\ result.op = "like_tweet"
    /\ result.status = "ok"
    /\ result.concurrent
    /\ \E q \in Procs :
          /\ InFlight(q)
          /\ sessions[q].op = "like_tweet"
          /\ sessions[q].target = result.target
          /\ sessions[q].user # result.user
          /\ ReadHolds(q)
          /\ \A r \in Procs \ {q} : Free(r)

\* --------------------------------------------------------- attachments
\* The URL the spec derives from a file name.
UrlOf(filename) == <<"/static/uploads/", filename>>

\* C22: after uploadMedia(user, f, path) and createTweet(user, content,
\* [that media id]) the tweet's attachment list has exactly one URL, the one
\* made from f whatever the path; and in every state a tweet's attachment
\* list has one URL for each Media row attached to it, made from that row's
\* file name.
C22_AttachmentUrls ==
    /\ \A t \in DOMAIN tweets :
          LET shown == tweet_view(t).attachments
          IN  /\ BagCardinality(shown)
                    = Cardinality({m \in DOMAIN medias : medias[m].tweet_id = t})
              /\ \A f \in Filenames :
                    Cardinality({m \in DOMAIN medias :
                                   /\ medias[m].tweet_id = t
                                   /\ medias[m].filename = f})
                       = CopiesIn(UrlOf(f), shown)
    /\ \A m \in DOMAIN medias :
          (/\ result.op = "create_tweet"
           /\ result.status = "ok"
           /\ result.media_ids = {m}
           /\ medias[m].user_id = result.user)
          => tweet_view(result.id).attachments
                = SetToBag({UrlOf(medias[m].filename)})

\* A tweet was created from the id of one media row of its author, while
\* another row has the same file name under another path.
C22_Witness ==
    /\ result.op = "create_tweet"
    /\ result.status = "ok"
    /\ \E m \in DOMAIN medias :
          /\ result.media_ids = {m}
          /\ medias[m].tweet_id = result.id
          /\ \E n \in DOMAIN medias :
                /\ medias[n].filename = medias[m].filename
                /\ medias[n].path # medias[m].path

\* ------------------------------------------------------------- frames
\* C23: uploadMedia(user, filename, path) on success adds exactly one Media
\* row, owned by user and attached to no tweet, and changes no tweet, no
\* follow or like edge and no other Media row.
C23_UploadFrame ==
    [][Did("upload_media") =>
          \A u \in Users : \A m \in MediaIds :
             result'.user = u /\ result'.id = m =>
                /\ m \notin DOMAIN medias
                /\ DOMAIN medias' = DOMAIN medias \cup {m}
                /\ medias'[m].user_id = u
                /\ medias'[m].tweet_id = NULL
                /\ \A n \in DOMAIN medias : medias'[n] = medias[n]
                /\ UNCHANGED <<tweets, followers, likes>>]_vars

\* A media row was uploaded into a store that has a tweet with a media row
\* attached and a like edge.
C23_Witness ==
    /\ result.op = "upload_media"
    /\ result.status = "ok"
    /\ medias[result.id].tweet_id = NULL
    /\ \E n \in DOMAIN medias : medias[n].tweet_id # NULL
    /\ likes # {}

\* C24: getTimeline and getProfile are pure reads: in any state, whatever
\* they return, neither changes any tweet, media row, follow edge or like
\* edge (user rows are never written), nor a sequence of the store.
C24_PureReads ==
    [][(/\ calls' = calls + 1
        /\ result'.op \in {"get_timeline", "get_my_profile", "get_user_profile"})
       => StoreUnchanged]_vars

\* A timeline holding a liked tweet of a followed user was returned.
C24_Witness ==
    /\ result.op = "get_timeline"
    /\ \E t \in Ids(result.tweets) : tweet_likes(t) # {}
    /\ followers # {}

\* ------------------------------------------------------------- ownership
\* C25: a tweet's owner is the user who created it, from its creation until
\* its deletion: no operation (likes, follows, media attachment, other
\* users' createTweet and deleteTweet calls among them) changes the owner of
\* an existing tweet, and the id of a deleted tweet names no tweet again.
C25_OwnerFixed ==
    /\ [](\A t \in deleted : t \notin DOMAIN tweets)
    /\ [][/\ \A t \in DOMAIN tweets :
                t \in DOMAIN tweets' => tweets'[t].user_id = tweets[t].user_id
          /\ Did("create_tweet") =>
                 \A t \in TweetIds :
                    result'.id = t =>
                       /\ t \notin DOMAIN tweets
                       /\ tweets'[t].user_id = result'.user]_vars

\* A user created a tweet from a media id while another user's tweet, which
\* has a like edge, is in the table.
C25_Witness ==
    /\ result.op = "create_tweet"
    /\ result.status = "ok"
    /\ tweet_medias(result.id) # {}
    /\ \E t \in DOMAIN tweets :
          /\ tweets[t].user_id # result.user
          /\ tweet_likes(t) # {}

\* C26: createTweet attaches every media row of the given ids that the caller
\* owns, a row attached to an earlier tweet included: the row moves to the
\* new tweet and the earlier tweet's attachments lose it.  A media row's
\* attachment changes in no other way than by a createTweet of its owner
\* naming it, or by the deletion of the tweet it is attached to.
C26_Reattach ==
    [][/\ Did("create_tweet") =>
             \A m \in DOMAIN medias :
                (m \in result'.media_ids /\ medias[m].user_id = result'.user) =>
                   /\ medias'[m].tweet_id = result'.id
                   /\ \A t \in DOMAIN tweets :
                         medias[m].tweet_id = t =>
                            /\ t \in DOMAIN tweets'
                            /\ m \notin tweet_medias(t)'
                            /\ m \in result'.moved
       /\ \A m \in DOMAIN medias :
             medias'[m].tweet_id # medias[m].tweet_id =>
                /\ calls' = calls + 1
                /\ result'.status = "ok"
                /\ \/ /\ result'.op = "create_tweet"
                      /\ result'.user = medias[m].user_id
                      /\ m \in result'.media_ids
                      /\ medias'[m].tweet_id = result'.id
                   \/ /\ result'.op = "delete_tweet"
                      /\ result'.target = medias[m].tweet_id
                      /\ medias'[m].tweet_id = NULL]_vars

\* A createTweet took a media row from an earlier tweet of its caller; the
\* earlier tweet is still there, without the row.
C26_Witness ==
    /\ result.op = "create_tweet"
    /\ result.status = "ok"
    /\ \E m \in result.moved :
          /\ medias[m].tweet_id = result.id
          /\ \E t \in DOMAIN tweets :
                /\ t # result.id
                /\ tweets[t].user_id = result.user
                /\ m \notin tweet_medias(t)

\* ------------------------------------------------------------ edge frames
\* C27: followUser(U,V) and unfollowUser(U,V), whatever they answer, change
\* at most the follow edge (U,V): the reverse edge (V,U), every other follow
\* edge, every like edge, tweet and media row stay as they were; likeTweet(U,T)
\* and unlikeTweet(U,T) change at most the like edge (U,T).
C27_EdgeFrame ==
    [][/\ (/\ calls' = calls + 1
           /\ result'.op \in {"follow_user", "unfollow_user"}) =>
             /\ followers' \ {<<result'.user, result'.target>>}
                   = followers \ {<<result'.user, result'.target>>}
             /\ UNCHANGED <<tweets, nextTweetId, now, likes, medias,
                            nextMediaId>>
       /\ (/\ calls' = calls + 1
           /\ result'.op \in {"like_tweet", "unlike_tweet"}) =>
             /\ likes' \ {<<result'.user, result'.target>>}
                   = likes \ {<<result'.user, result'.target>>}
             /\ UNCHANGED <<tweets, nextTweetId, now, followers, medias,
                            nextMediaId>>]_vars

\* An unfollow removed the edge (U,V) and the reverse edge (V,U) is still
\* there.
C27_Witness ==
    /\ result.op = "unfollow_user"
    /\ result.status = "ok"
    /\ result.commit
    /\ <<result.user, result.target>> \notin followers
    /\ <<result.target, result.user>> \in followers

\* ------------------------------------------------------------- round trips
\* The pair of the remembered call has no edge in the remembered store.
EdgeAbsent ==
    <<start.user, start.target>> \notin
        (IF start.op = "follow_user"
         THEN start.store.followers ELSE start.store.likes)

\* C28: from a store without the follow edge (U,V), followUser(U,V) followed
\* by unfollowUser(U,V) leaves the store, its sequences included, exactly as
\* it was before the two calls; likewise likeTweet(U,T) followed by
\* unlikeTweet(U,T) from a store without the like edge (U,T).
C28_RoundTrip ==
    (start.undone /\ EdgeAbsent) => Store = start.store

\* A follow inserted an edge, beside the reverse edge, and the unfollow that
\* came next removed it.
C28_Witness ==
    /\ start.undone
    /\ start.op = "follow_user"
    /\ EdgeAbsent
    /\ result.op = "unfollow_user"
    /\ result.status = "ok"
    /\ result.commit
    /\ <<start.target, start.user>> \in followers

\* ------------------------------------------------------ waiting for the db
\* The connection attempts made so far.
Attempts == Len(wait.outcomes)

AllRefused ==
    \A j \in 1..Attempts : wait.outcomes[j] = "OperationalError"

\* What holds of a wait_for_db call at every moment.
WaitSafe ==
    wait.pc # "none" =>
        /\ Attempts <= wait.retries
        /\ \A j \in 1..Attempts :
              wait.outcomes[j] = "ok" => (j = Attempts /\ wait.pc = "return")
        /\ wait.pc = "return" =>
              (Attempts >= 1 /\ wait.outcomes[Attempts] = "ok")
        /\ wait.pc \in Left =>
              (wait.pc = "RuntimeError"
                 <=> (Attempts = wait.retries /\ AllRefused))

\* C29: wait_for_db(uri, retries, delay) always terminates; it returns as
\* soon as one connection attempt succeeds, makes at most retries connection
\* attempts, and raises RuntimeError if and only if all retries attempts
\* failed with an OperationalError.
C29_WaitTerminates ==
    /\ []WaitSafe
    /\ (wait.pc \in Running) ~> (wait.pc \in Left)

\* The call made with the defaults returned at its third attempt, after two
\* refused ones and two sleeps.
C29_Witness ==
    /\ wait.pc = "return"
    /\ wait.retries = DefaultRetries
    /\ wait.delay = DefaultDelay
    /\ wait.outcomes = <<"OperationalError", "OperationalError", "ok">>
    /\ wait.slept = 2 * DefaultDelay

====
